---------------------------- MODULE Spec2Model ----------------------------
(***************************************************************************)
(* A model of paket's fetching core (src/src/http.rs): the incremental     *)
(* title extractor HtmlBodyReader::extract_title, the LineReader, the      *)
(* response classifier http_get and the redirect loop request_document.    *)
(*                                                                         *)
(* A byte is modelled as a one-character string; the two bytes of the      *)
(* UTF-8 encoding of U+00E9 are "C3" (lead byte) and "A9" (continuation).  *)
(***************************************************************************)
EXTENDS Integers, Sequences, FiniteSets, TLC

VARIABLES
    buffer,     \* HtmlBodyReader.buffer / LineReader.buffer (Vec<u8>)
    capacity,   \* the Vec's capacity
    stream,     \* bytes the transport has not delivered yet
    state,      \* extract_title's State: Start, Name, Attributes, Value
    title,      \* the accumulator carried by State::Value
    pc,         \* extract_title's position: match, read, done, idle
    result,     \* extract_title's return value
    step,       \* history: the arm of the loop taken last
    input,      \* history: initial buffer content followed by the stream
    prebuffered,\* history: the buffer's content when extract_title started
    initCap,    \* history: the buffer's capacity when extract_title started
    offset,     \* LineReader.offset
    hpc,        \* http_get's position: read, scan, done, idle
    expected,   \* http_get's expected_header: none (status line not read yet),
                \* ContentType, Location
    url,        \* http_get's url / request_document's url
    response,   \* http_get's return value
    lines,      \* history: the lines next_line returned
    sent,       \* history: the bytes the server sends on this connection
    url_str,    \* request_document's argument
    fpc,        \* request_document's position: parse, loop, done, idle
    hop,        \* the number of turns of the redirect loop completed
    fres,       \* request_document's return value
    chain,      \* history: the URLs request_document's url has held
    locs,       \* history: the Location values of the redirects followed
    transports, \* the transports opened so far, each with its current owner
    requests,   \* history: the requests written, one per http_get
    saves,      \* add_article: the state of each save request in progress
    articles,   \* the rows of the articles table, in the order of insertion
    db_lock,    \* the holder of the db_connection mutex, 0 when it is free
    now,        \* the database's current_timestamp, in days
    stats,      \* the stats_per_week_of_year table: week_of_year -> articles_count
    op          \* history: the transaction that touched the tables last, with
                \* the rows its guid had before it

hist == <<input, prebuffered, initCap>>

\* the title extractor's variables besides the buffer and the stream
xvars == <<state, title, pc, result, step, hist>>

\* the LineReader's and http_get's own variables
lvars == <<offset, hpc, expected, response, lines, sent>>

\* request_document's variables
fvars == <<url_str, fpc, hop, fres, chain, locs>>

\* the connections of a fetch
cvars == <<transports, requests>>

\* the save requests and the article store
svars == <<saves, articles, db_lock, now, stats, op>>

\* all of a fetch's variables besides the buffer and the stream
hvars == <<lvars, url, fvars, cvars, svars>>

vars == <<buffer, capacity, stream, xvars, hvars>>

(***************************************************************************)
(* Bounds of the model.                                                    *)
(***************************************************************************)
\* the small buffer capacities tried are TagLen .. MaxCap
MaxCap == 7
\* a capacity that holds a whole document, like the tests' with_capacity(64)
BigCap == 24

(***************************************************************************)
(* Sequence helpers.                                                       *)
(***************************************************************************)
Min(a, b) == IF a <= b THEN a ELSE b

Max(a, b) == IF a >= b THEN a ELSE b

\* s without its first n elements: Vec::drain(..n)
Drop(s, n) == SubSeq(s, n + 1, Len(s))

\* the first n elements of s
Take(s, n) == SubSeq(s, 1, n)

\* memchr(b, s): the 0-based index of the first b in s, or -1 for None
memchr(b, s) ==
    IF \E i \in 1..Len(s) : s[i] = b
    THEN (CHOOSE i \in 1..Len(s) : s[i] = b /\ \A j \in 1..(i - 1) : s[j] # b) - 1
    ELSE -1

\* usize::saturating_sub
saturating_sub(a, b) == IF a >= b THEN a - b ELSE 0

(***************************************************************************)
(* Bytes and text.                                                         *)
(***************************************************************************)
HTML_TITLE_TAG == <<"t", "i", "t", "l", "e">>

TagLen == Len(HTML_TITLE_TAG)

\* u8::to_ascii_lowercase, on the letters the model uses
to_ascii_lowercase(b) ==
    CASE b = "T" -> "t"
      [] b = "I" -> "i"
      [] b = "L" -> "l"
      [] b = "E" -> "e"
      [] b = "A" -> "a"
      [] OTHER -> b

\* str::eq_ignore_ascii_case
eq_ignore_ascii_case(a, b) ==
    /\ Len(a) = Len(b)
    /\ \A i \in 1..Len(a) : to_ascii_lowercase(a[i]) = to_ascii_lowercase(b[i])

IsLead(b) == b = "C3"

IsCont(b) == b = "A9"

IsAscii(b) == ~IsLead(b) /\ ~IsCont(b)

\* str::from_utf8(s).is_ok()
RECURSIVE Utf8Valid(_)
Utf8Valid(s) ==
    IF s = <<>> THEN TRUE
    ELSE IF IsAscii(s[1]) THEN Utf8Valid(Tail(s))
    ELSE IF IsLead(s[1]) /\ Len(s) >= 2 /\ IsCont(s[2]) THEN Utf8Valid(Drop(s, 2))
    ELSE FALSE

\* String::from_utf8_lossy: every byte that is not part of a well-formed
\* sequence becomes U+FFFD; a well-formed two-byte sequence is one character
RECURSIVE from_utf8_lossy(_)
from_utf8_lossy(s) ==
    IF s = <<>> THEN <<>>
    ELSE IF IsAscii(s[1]) THEN <<s[1]>> \o from_utf8_lossy(Tail(s))
    ELSE IF IsLead(s[1]) /\ Len(s) >= 2 /\ IsCont(s[2])
         THEN <<"U+00E9">> \o from_utf8_lossy(Drop(s, 2))
    ELSE <<"U+FFFD">> \o from_utf8_lossy(Tail(s))

(***************************************************************************)
(* extract_title's results.                                                *)
(***************************************************************************)
Pending == [kind |-> "Pending", val |-> <<>>]

OkNone == [kind |-> "None", val |-> <<>>]

OkSome(t) == [kind |-> "Some", val |-> t]

ErrUtf8 == [kind |-> "Err", val |-> <<"utf8">>]

(***************************************************************************)
(* AsyncReadExt::read_buf into a Vec<u8>: BufMut::chunk_mut reserves 64    *)
(* more bytes when the vector is full (Vec::reserve grows to at least      *)
(* twice the capacity), and the read fills at most the spare capacity.     *)
(***************************************************************************)
ReservedCapacity(len, cap) ==
    IF len = cap THEN Max(2 * cap, len + 64) ELSE cap

(***************************************************************************)
(* The steps of extract_title's loop.                                      *)
(***************************************************************************)
\* (mutant of StartRetain: the discard keeps one byte more than the tag name)
StartRetainOneMore(buf) == Drop(buf, saturating_sub(Len(buf), TagLen + 1))

\* State::Start, None arm: what drain(..len.saturating_sub(TAG.len())) keeps
StartRetain(buf) == Drop(buf, saturating_sub(Len(buf), TagLen))

\* State::Start, Some arm: drain(..=tag_start)
StartDrain(buf) == Drop(buf, memchr("<", buf) + 1)

\* (mutant of AttributesDrain: the ">" itself is left in the buffer)
AttributesDrainBefore(buf) == Drop(buf, memchr(">", buf))

\* State::Attributes, Some arm: drain(..=tag_end)
AttributesDrain(buf) == Drop(buf, memchr(">", buf) + 1)

StartFound ==
    /\ pc = "match" /\ state = "Start"
    /\ step' = "StartFound"
    /\ memchr("<", buffer) >= 0
    /\ buffer' = StartDrain(buffer)
    /\ state' = "Name"
    /\ UNCHANGED <<capacity, stream, title, pc, result, hist, hvars>>

StartNone ==
    /\ pc = "match" /\ state = "Start"
    /\ step' = "StartNone"
    /\ memchr("<", buffer) < 0
    /\ buffer' = StartRetain(buffer)
    /\ pc' = "read"
    /\ UNCHANGED <<capacity, stream, state, title, result, hist, hvars>>

NameShort ==
    /\ pc = "match" /\ state = "Name"
    /\ step' = "NameShort"
    /\ Len(buffer) < TagLen
    /\ pc' = "read"
    /\ UNCHANGED <<buffer, capacity, stream, state, title, result, hist, hvars>>

NameInvalidUtf8 ==
    /\ pc = "match" /\ state = "Name"
    /\ step' = "NameInvalidUtf8"
    /\ Len(buffer) >= TagLen
    /\ ~Utf8Valid(Take(buffer, TagLen))
    /\ result' = ErrUtf8
    /\ pc' = "done"
    /\ UNCHANGED <<buffer, capacity, stream, state, title, hist, hvars>>

NameMatch ==
    /\ pc = "match" /\ state = "Name"
    /\ step' = "NameMatch"
    /\ Len(buffer) >= TagLen
    /\ Utf8Valid(Take(buffer, TagLen))
    /\ eq_ignore_ascii_case(HTML_TITLE_TAG, Take(buffer, TagLen))
    /\ state' = "Attributes"
    /\ UNCHANGED <<buffer, capacity, stream, title, pc, result, hist, hvars>>

NameMismatch ==
    /\ pc = "match" /\ state = "Name"
    /\ step' = "NameMismatch"
    /\ Len(buffer) >= TagLen
    /\ Utf8Valid(Take(buffer, TagLen))
    /\ ~eq_ignore_ascii_case(HTML_TITLE_TAG, Take(buffer, TagLen))
    /\ state' = "Start"
    /\ pc' = "read"
    /\ UNCHANGED <<buffer, capacity, stream, title, result, hist, hvars>>

AttributesFound ==
    /\ pc = "match" /\ state = "Attributes"
    /\ step' = "AttributesFound"
    /\ memchr(">", buffer) >= 0
    /\ buffer' = AttributesDrain(buffer)
    /\ state' = "Value"
    /\ title' = <<>>
    /\ pc' = "read"
    /\ UNCHANGED <<capacity, stream, result, hist, hvars>>

AttributesNone ==
    /\ pc = "match" /\ state = "Attributes"
    /\ step' = "AttributesNone"
    /\ memchr(">", buffer) < 0
    /\ buffer' = <<>>
    /\ pc' = "read"
    /\ UNCHANGED <<capacity, stream, state, title, result, hist, hvars>>

ValueFound ==
    /\ pc = "match" /\ state = "Value"
    /\ step' = "ValueFound"
    /\ memchr("<", buffer) >= 0
    /\ title' = title \o Take(buffer, memchr("<", buffer))
    /\ result' = OkSome(from_utf8_lossy(title'))
    /\ pc' = "done"
    /\ UNCHANGED <<buffer, capacity, stream, state, hist, hvars>>

ValueNone ==
    /\ pc = "match" /\ state = "Value"
    /\ step' = "ValueNone"
    /\ memchr("<", buffer) < 0
    /\ title' = title \o buffer
    /\ buffer' = <<>>
    /\ pc' = "read"
    /\ UNCHANGED <<capacity, stream, state, result, hist, hvars>>

\* self.stream.read_buf(&mut self.buffer) delivers n >= 1 bytes
ReadMore ==
    /\ pc = "read"
    /\ step' = "ReadMore"
    /\ stream # <<>>
    /\ capacity' = ReservedCapacity(Len(buffer), capacity)
    /\ \E n \in 1..Min(Len(stream), capacity' - Len(buffer)) :
          /\ buffer' = buffer \o Take(stream, n)
          /\ stream' = Drop(stream, n)
    /\ pc' = "match"
    /\ UNCHANGED <<state, title, result, hist, hvars>>

\* (mutant of ReadEof: a read of 0 bytes is retried instead of returning)
ReadEofRetries ==
    /\ pc = "read"
    /\ step' = "ReadEof"
    /\ stream = <<>>
    /\ capacity' = ReservedCapacity(Len(buffer), capacity)
    /\ pc' = "match"
    /\ UNCHANGED <<buffer, stream, state, title, result, hist, hvars>>

\* read_buf returns 0: the transport is at EOF
ReadEof ==
    /\ pc = "read"
    /\ step' = "ReadEof"
    /\ stream = <<>>
    /\ capacity' = ReservedCapacity(Len(buffer), capacity)
    /\ result' = OkNone
    /\ pc' = "done"
    /\ UNCHANGED <<buffer, stream, state, title, hist, hvars>>

ExtractNext ==
    \/ StartFound
    \/ StartNone
    \/ NameShort
    \/ NameInvalidUtf8
    \/ NameMatch
    \/ NameMismatch
    \/ AttributesFound
    \/ AttributesNone
    \/ ValueFound
    \/ ValueNone
    \/ ReadMore
    \/ ReadEof

(***************************************************************************)
(* URLs.  A URL is a record of its scheme, host, path segments and query;  *)
(* a header value is a sequence of tokens, the separators "//" and "/"     *)
(* being tokens of their own: http://b.org/x/y is                          *)
(* <<"http:", "//", "b.org", "/", "x", "/", "y">>.                         *)
(***************************************************************************)
NoUrl == [scheme |-> "", host |-> "", path |-> <<>>, query |-> ""]

MkUrl(scheme, host, path) ==
    [scheme |-> scheme, host |-> host, path |-> path, query |-> ""]

\* s split on the separator sep: str::split
RECURSIVE SplitOn(_, _)
SplitOn(s, sep) ==
    IF memchr(sep, s) < 0 THEN <<s>>
    ELSE <<Take(s, memchr(sep, s))>> \o SplitOn(Drop(s, memchr(sep, s) + 1), sep)

\* the tokens of s other than the separator "/"
RECURSIVE PathSegments(_)
PathSegments(s) ==
    IF s = <<>> THEN <<>>
    ELSE IF s[1] = "/" THEN PathSegments(Tail(s))
    ELSE <<s[1]>> \o PathSegments(Tail(s))

SchemeOf(tok) ==
    CASE tok = "http:" -> "http"
      [] tok = "https:" -> "https"
      [] tok = "ftp:" -> "ftp"
      [] OTHER -> ""

\* Url::parse(v) is Ok: v starts with a scheme, "//" and a host
IsAbsoluteUrl(v) ==
    /\ Len(v) >= 3
    /\ SchemeOf(v[1]) # ""
    /\ v[2] = "//"
    /\ v[3] # "/"

\* Url::parse(v) is Err(ParseError::RelativeUrlWithoutBase): no scheme
IsRelativeRef(v) == v = <<>> \/ SchemeOf(v[1]) = ""

\* the tokens of v before its "?"
BeforeQuery(v) == IF memchr("?", v) < 0 THEN v ELSE Take(v, memchr("?", v))

\* the query of v: the token after its "?", "" for none
QueryOf(v) ==
    IF memchr("?", v) < 0 \/ memchr("?", v) + 2 > Len(v) THEN "" ELSE v[memchr("?", v) + 2]

\* Url::parse of an absolute URL
UrlParse(v) ==
    [scheme |-> SchemeOf(v[1]), host |-> v[3],
     path |-> PathSegments(Drop(BeforeQuery(v), 3)), query |-> QueryOf(v)]

AllButLast(s) == IF s = <<>> THEN <<>> ELSE Take(s, Len(s) - 1)

\* Url::join(base, v) for a relative reference v: a reference starting with
\* "/" replaces the path, any other is merged with the base's directory
UrlJoin(base, v) ==
    IF v = <<>> THEN base
    ELSE IF v[1] = "?" THEN [base EXCEPT !.query = QueryOf(v)]
    ELSE IF v[1] = "/"
    THEN [scheme |-> base.scheme, host |-> base.host,
          path |-> PathSegments(BeforeQuery(v)), query |-> QueryOf(v)]
    ELSE [scheme |-> base.scheme, host |-> base.host,
          path |-> AllButLast(base.path) \o PathSegments(BeforeQuery(v)),
          query |-> QueryOf(v)]

(***************************************************************************)
(* http_get's results: an HttpResponse (Ok(Document) or Redirect(url)),    *)
(* an error, or a panic.                                                   *)
(***************************************************************************)
NoResponse == [kind |-> "Pending", url |-> NoUrl, why |-> ""]

Document(kind, u) == [kind |-> kind, url |-> u, why |-> ""]

Redirect(u) == [kind |-> "Redirect", url |-> u, why |-> ""]

Err(why) == [kind |-> "Err", url |-> NoUrl, why |-> why]

Panic(why) == [kind |-> "Panic", url |-> NoUrl, why |-> why]

Skip == [kind |-> "Skip", url |-> NoUrl, why |-> ""]

(***************************************************************************)
(* Transports.  A transport is PlainOrTls::Plain or PlainOrTls::Tls; its   *)
(* owner is the function or object that holds it: request_document (the    *)
(* local tcp_stream), LineReader (lines.stream), HtmlBodyReader            *)
(* (self.stream), or dropped once its owner went out of scope.             *)
(***************************************************************************)
Transport(kind, host, owner) == [kind |-> kind, host |-> host, owner |-> owner]

\* (mutant of SetOwner: the transport stays with whoever held it)
KeepOwner(ts, who) == [ts EXCEPT ![Len(ts)].owner = @]

\* the transport opened last changes hands
SetOwner(ts, who) == [ts EXCEPT ![Len(ts)].owner = who]

\* the transport opened last becomes PlainOrTls::Tls
SetKind(ts, kind) == [ts EXCEPT ![Len(ts)].kind = kind]

(***************************************************************************)
(* The request http_get writes.                                            *)
(***************************************************************************)
\* Url::path: "/" before every segment, "/" alone for no segment
RECURSIVE UrlPath(_)
UrlPath(segs) ==
    IF segs = <<>> THEN <<>>
    ELSE <<"/", segs[1]>> \o UrlPath(Tail(segs))

path(u) == IF u.path = <<>> THEN <<"/">> ELSE UrlPath(u.path)

host_str(u) == u.host

Request(u) ==
    <<"GET", " ">> \o path(u) \o <<" ", "HTTP/1.1", "CR", "LF">>
      \o <<"Host", ": ", host_str(u), "CR", "LF">>
      \o <<"Connection", ": ", "close", "CR", "LF">>
      \o <<"Accept-Encoding", ": ", "CR", "LF">>
      \o <<"Accept", ": ",
            "text/html,application/xhtml+xml,application/pdf,*/*;q=0", "CR", "LF">>
      \o <<"User-Agent", ": ", "paket", "CR", "LF">>
      \o <<"CR", "LF">>

(***************************************************************************)
(* LineReader::next_line, the arm that finds a terminator.                 *)
(***************************************************************************)
HTTP_BUFFER_SIZE == 4096

\* memchr(b'\n', &self.buffer[self.offset..]) is Some
HasLine(buf, off) == memchr("LF", Drop(buf, off)) >= 0

\* line_end.saturating_sub(1)
LineEnd(buf, off) == saturating_sub(memchr("LF", Drop(buf, off)), 1)

\* &self.buffer[self.offset..(self.offset + line_end)]
LineOf(buf, off) == SubSeq(buf, off + 1, off + LineEnd(buf, off))

\* self.offset += line.len() + 2
OffsetAfter(buf, off) == off + Len(LineOf(buf, off)) + 2

\* the None arm: self.buffer.drain(self.offset..)
RefillDrain(buf, off) == Take(buf, off)

(***************************************************************************)
(* http_get: the status line and the header lines.                         *)
(***************************************************************************)
\* (mutant of StatusStep: 304 Not Modified is taken for a redirect)
StatusStepNotModified(line) ==
    LET parts == SplitOn(line, " ")
    IN  IF parts[1] # <<"HTTP/1.1">> THEN "http/1.1 expected"
        ELSE IF Len(parts) < 2 THEN "no status"
        ELSE IF parts[2] \in {<<"200">>, <<"203">>} THEN "ContentType"
        ELSE IF parts[2] \in {<<"300">>, <<"301">>, <<"302">>, <<"303">>, <<"304">>,
                              <<"307">>, <<"308">>} THEN "Location"
        ELSE "unexpected status"

\* the expected header for a status line, or the error it fails with
StatusStep(line) ==
    LET parts == SplitOn(line, " ")
    IN  IF parts[1] # <<"HTTP/1.1">> THEN "http/1.1 expected"
        ELSE IF Len(parts) < 2 THEN "no status"
        ELSE IF parts[2] \in {<<"200">>, <<"203">>} THEN "ContentType"
        ELSE IF parts[2] \in {<<"300">>, <<"301">>, <<"302">>, <<"303">>,
                              <<"307">>, <<"308">>} THEN "Location"
        ELSE "unexpected status"

\* (mutant of HeaderFound: the name is compared without regard to case)
HeaderFoundAnyCase(exp, name) ==
    IF exp = "ContentType"
    THEN name \in {<<"Content-Type">>, <<"content-type">>, <<"CONTENT-TYPE">>}
    ELSE name \in {<<"Location">>, <<"location">>, <<"LOCATION">>}

HeaderFound(exp, name) ==
    IF exp = "ContentType"
    THEN name = <<"Content-Type">> \/ name = <<"content-type">>
    ELSE name = <<"Location">> \/ name = <<"location">>

\* (mutant of ResolveLocation: a relative value is joined to the URL the
\* fetch started with)
ResolveLocationAgainstStart(u, value) ==
    IF IsAbsoluteUrl(value) THEN Redirect(UrlParse(value))
    ELSE IF IsRelativeRef(value) THEN Redirect(UrlJoin(UrlParse(url_str), value))
    ELSE Err("invalid url")

\* the Location branch: Url::parse, and url.join for a relative value
ResolveLocation(u, value) ==
    IF IsAbsoluteUrl(value) THEN Redirect(UrlParse(value))
    ELSE IF IsRelativeRef(value) THEN Redirect(UrlJoin(u, value))
    ELSE Err("invalid url")

\* (mutant of Classify: the parameters after ";" are not stripped)
ClassifyWholeValue(u, value) ==
    IF value \in {<<"text/html">>, <<"TEXT/HTML">>,
                  <<"application/xhtml+xml">>, <<"APPLICATION/XHTML+XML">>}
    THEN Document("Html", u)
    ELSE IF value \in {<<"application/pdf">>, <<"APPLICATION/PDF">>}
    THEN Document("Pdf", u)
    ELSE Document("Unsupported", u)

\* the ContentType branch
Classify(u, value) ==
    LET media_type == SplitOn(value, ";")[1]
    IN  IF media_type \in {<<"text/html">>, <<"TEXT/HTML">>,
                           <<"application/xhtml+xml">>, <<"APPLICATION/XHTML+XML">>}
        THEN Document("Html", u)
        ELSE IF media_type \in {<<"application/pdf">>, <<"APPLICATION/PDF">>}
        THEN Document("Pdf", u)
        ELSE Document("Unsupported", u)

\* one turn of the header loop on a line: Skip when the loop goes on
HeaderStep(u, exp, line) ==
    LET parts == SplitOn(line, ": ")
    IN  IF line = <<>> THEN Err("no expected header")
        ELSE IF ~HeaderFound(exp, parts[1]) THEN Skip
        ELSE IF Len(parts) < 2 THEN Err("invalid header")
        ELSE IF exp = "Location" THEN ResolveLocation(u, parts[2])
        ELSE Classify(u, parts[2])

\* next_line's entry: an empty buffer is filled before the scan
NextCall(buf) == IF buf = <<>> THEN "read" ELSE "scan"

\* read_more: read_buf delivers n >= 1 bytes
LineRead ==
    /\ hpc = "read"
    /\ stream # <<>>
    /\ capacity' = ReservedCapacity(Len(buffer), capacity)
    /\ \E n \in 1..Min(Len(stream), capacity' - Len(buffer)) :
          /\ buffer' = buffer \o Take(stream, n)
          /\ stream' = Drop(stream, n)
    /\ hpc' = "scan"
    /\ UNCHANGED <<offset, expected, url, response, lines, sent, xvars, fvars, requests, svars>>
    /\ UNCHANGED transports

\* read_more: read_buf returns 0, bail!("no data")
LineReadEof ==
    /\ hpc = "read"
    /\ stream = <<>>
    /\ capacity' = ReservedCapacity(Len(buffer), capacity)
    /\ response' = Err("no data")
    /\ hpc' = "done"
    /\ UNCHANGED <<buffer, stream, offset, expected, url, lines, sent, xvars, fvars, requests, svars>>
    /\ transports' = SetOwner(transports, "dropped")

\* read_more: read_buf fails and the Result is unwrapped
LineReadFailed ==
    /\ hpc = "read"
    /\ response' = Panic("read error")
    /\ hpc' = "done"
    /\ transports' = SetOwner(transports, "dropped")
    /\ UNCHANGED <<buffer, capacity, stream, offset, expected, url, lines, sent>>
    /\ UNCHANGED <<xvars, fvars, requests, svars>>

\* no terminator in the unconsumed region: drain, reset the offset, read_more.
\* (http_get never calls next_line with the offset past the buffer's end: the
\* only line that moves it there is an empty one, which ends http_get.)
LineRefill ==
    /\ hpc = "scan"
    /\ offset <= Len(buffer)
    /\ ~HasLine(buffer, offset)
    /\ buffer' = RefillDrain(buffer, offset)
    /\ offset' = 0
    /\ hpc' = "read"
    /\ UNCHANGED <<capacity, stream, expected, url, response, lines, sent, xvars, fvars, requests, svars>>
    /\ UNCHANGED transports

\* a line is found but str::from_utf8(line) fails
LineInvalidUtf8 ==
    /\ hpc = "scan"
    /\ offset <= Len(buffer)
    /\ HasLine(buffer, offset)
    /\ ~Utf8Valid(LineOf(buffer, offset))
    /\ offset' = OffsetAfter(buffer, offset)
    /\ response' = Err("invalid utf-8")
    /\ hpc' = "done"
    /\ UNCHANGED <<buffer, capacity, stream, expected, url, lines, sent, xvars, fvars, requests, svars>>
    /\ transports' = SetOwner(transports, "dropped")

\* next_line returns a valid line to http_get
LineReturned ==
    /\ hpc = "scan"
    /\ offset <= Len(buffer)
    /\ HasLine(buffer, offset)
    /\ Utf8Valid(LineOf(buffer, offset))
    /\ offset' = OffsetAfter(buffer, offset)
    /\ lines' = Append(lines, LineOf(buffer, offset))

StatusAccepted ==
    /\ LineReturned
    /\ expected = "none"
    /\ StatusStep(LineOf(buffer, offset)) \in {"ContentType", "Location"}
    /\ expected' = StatusStep(LineOf(buffer, offset))
    /\ hpc' = NextCall(buffer)
    /\ UNCHANGED <<buffer, capacity, stream, url, response, sent, xvars, fvars, requests, svars>>
    /\ UNCHANGED transports

StatusRejected ==
    /\ LineReturned
    /\ expected = "none"
    /\ StatusStep(LineOf(buffer, offset)) \notin {"ContentType", "Location"}
    /\ response' = Err(StatusStep(LineOf(buffer, offset)))
    /\ hpc' = "done"
    /\ UNCHANGED <<buffer, capacity, stream, expected, url, sent, xvars, fvars, requests, svars>>
    /\ transports' = SetOwner(transports, "dropped")

HeaderSkipped ==
    /\ LineReturned
    /\ expected # "none"
    /\ HeaderStep(url, expected, LineOf(buffer, offset)) = Skip
    /\ hpc' = NextCall(buffer)
    /\ UNCHANGED <<buffer, capacity, stream, expected, url, response, sent, xvars, fvars, requests, svars>>
    /\ UNCHANGED transports

HeaderFailed ==
    /\ LineReturned
    /\ expected # "none"
    /\ HeaderStep(url, expected, LineOf(buffer, offset)).kind = "Err"
    /\ response' = HeaderStep(url, expected, LineOf(buffer, offset))
    /\ hpc' = "done"
    /\ UNCHANGED <<buffer, capacity, stream, expected, url, sent, xvars, fvars, requests, svars>>
    /\ transports' = SetOwner(transports, "dropped")

HeaderRedirect ==
    /\ LineReturned
    /\ expected # "none"
    /\ HeaderStep(url, expected, LineOf(buffer, offset)).kind = "Redirect"
    /\ response' = HeaderStep(url, expected, LineOf(buffer, offset))
    /\ hpc' = "done"
    /\ UNCHANGED <<buffer, capacity, stream, expected, url, sent, xvars, fvars, requests, svars>>
    /\ transports' = SetOwner(transports, "dropped")

\* Ok(Document): for Html, HtmlBodyReader::new(lines.stream, lines.buffer)
\* takes over the stream and the buffer as they are
HeaderDocument ==
    /\ LineReturned
    /\ expected # "none"
    /\ HeaderStep(url, expected, LineOf(buffer, offset)).kind
          \in {"Html", "Pdf", "Unsupported"}
    /\ response' = HeaderStep(url, expected, LineOf(buffer, offset))
    /\ hpc' = "done"
    /\ UNCHANGED <<buffer, capacity, stream, expected, url, sent, xvars, fvars, requests, svars>>
    /\ transports' = SetOwner(transports,
                               IF response'.kind = "Html" THEN "HtmlBodyReader"
                               ELSE "dropped")

HttpNext ==
    \/ LineRead
    \/ LineReadEof
    \/ LineReadFailed
    \/ LineRefill
    \/ LineInvalidUtf8
    \/ StatusAccepted
    \/ StatusRejected
    \/ HeaderSkipped
    \/ HeaderFailed
    \/ HeaderRedirect
    \/ HeaderDocument

\* no request_document is in progress
FetchIdle ==
    /\ url_str = <<>>
    /\ fpc = "idle"
    /\ hop = 0
    /\ fres = [kind |-> "Pending", url |-> NoUrl, why |-> ""]
    /\ chain = <<>>
    /\ locs = <<>>

\* no save request is in progress and the articles table is empty
\* no transaction yet
NoOp == [n |-> 0, kind |-> "none", guid |-> <<>>, article |-> <<>>, before |-> <<>>]

SaveIdle ==
    /\ saves = <<>>
    /\ articles = <<>>
    /\ db_lock = 0
    /\ now = 0
    /\ stats = <<>>
    /\ op = NoOp

\* no http_get is in progress
HttpIdle ==
    /\ offset = 0
    /\ hpc = "idle"
    /\ expected = "none"
    /\ url = NoUrl
    /\ response = NoResponse
    /\ lines = <<>>
    /\ sent = <<>>
    /\ FetchIdle

\* no extract_title is in progress
ExtractIdle ==
    /\ state = "Start"
    /\ title = <<>>
    /\ pc = "idle"
    /\ result = Pending
    /\ step = "new"
    /\ input = <<>>
    /\ prebuffered = <<>>
    /\ initCap = 0

(***************************************************************************)
(* The responses http_get is run on.                                       *)
(***************************************************************************)
CRLF == <<"CR", "LF">>

StatusOk == <<"HTTP/1.1", " ", "200", " ", "OK">> \o CRLF

StatusMoved == <<"HTTP/1.1", " ", "301", " ", "Moved">> \o CRLF

ServerHeader == <<"Server", ": ", "x">> \o CRLF

HtmlHeader == <<"Content-Type", ": ", "text/html">> \o CRLF

XhtmlHeader ==
    <<"content-type", ": ", "APPLICATION/XHTML+XML", ";", " ", "charset=utf-8">> \o CRLF

Body == <<"<", "t", "i", "t", "l", "e", ">", "R", "<", "/", "t", "i", "t", "l", "e", ">">>

\* the status tokens the servers answer with
StatusTokens ==
    { "200", "201", "203", "204", "300", "301", "302", "303", "304", "307", "308",
      "404", "500", "20" }

\* a response with the status s that carries both headers
StatusResponses ==
    { <<"HTTP/1.1", " ", s, " ", "X">> \o CRLF
        \o <<"Location", ": ", "/", "new">> \o CRLF \o HtmlHeader \o CRLF :
        s \in StatusTokens }

\* the Content-Type values the servers answer with
MediaValues ==
    { <<"TEXT/HTML">>,
      <<"application/xhtml+xml">>,
      <<"APPLICATION/PDF", ";", "x", ": ", "y">>,
      <<"Text/Html">>,
      <<"text/html", " ", ";", "charset=utf-8">>,
      <<"text/plain", ";", "text/html">>,
      <<>> }

MediaResponses ==
    { StatusOk \o <<"Content-Type", ": ">> \o v \o CRLF \o CRLF \o <<"<", "p", ">">> :
        v \in MediaValues }

Responses ==
    StatusResponses \cup MediaResponses \cup
    { <<"HTTP/1.1", " ", "200", " ", "OK", "LF">> \o <<"Content-Type", ": ", "text/html", "LF">>
          \o <<"LF">> \o Body, <<"HTTP/1.1", " ", " ", "200">> \o CRLF \o HtmlHeader \o CRLF,
      <<"http/1.1", " ", "200", " ", "OK">> \o CRLF \o HtmlHeader \o CRLF,
      StatusOk \o HtmlHeader \o CRLF \o Body,
      StatusOk \o ServerHeader \o XhtmlHeader \o CRLF \o Body,
      StatusOk \o <<"Content-Type", ": ", "application/pdf">> \o CRLF \o CRLF,
      StatusOk \o <<"Content-Type", ": ", "image/png">> \o CRLF \o CRLF,
      StatusOk \o <<"CONTENT-TYPE", ": ", "text/html">> \o CRLF \o CRLF \o Body,
      StatusOk \o <<"Content-Type">> \o CRLF \o CRLF,
      StatusOk \o <<"X", ": ", "C3">> \o CRLF \o HtmlHeader \o CRLF,
      StatusOk \o <<"LF">> \o HtmlHeader \o <<"LF">>,
      StatusOk \o ServerHeader \o <<"LF">>,
      StatusMoved \o <<"Location", ": ", "/", "new", "/", "path">> \o CRLF \o CRLF,
      StatusMoved \o ServerHeader
          \o <<"location", ": ", "https:", "//", "b.org", "/", "x">> \o CRLF \o CRLF,
      StatusMoved \o <<"Location", ": ", "http:", "//">> \o CRLF \o CRLF,
      <<"HTTP/1.1", " ", "404", " ", "Not", " ", "Found">> \o CRLF \o CRLF,
      <<"HTTP/1.0", " ", "200", " ", "OK">> \o CRLF \o HtmlHeader \o CRLF,
      <<"HTTP/1.1">> \o CRLF \o HtmlHeader \o CRLF,
      <<>> }

ExampleOld == MkUrl("http", "example.com", <<"old">>)

HttpInit ==
    /\ sent \in Responses
    /\ stream = sent
    /\ url = ExampleOld
    /\ buffer = <<>>
    /\ capacity = HTTP_BUFFER_SIZE
    /\ offset = 0
    /\ hpc = "read"
    /\ expected = "none"
    /\ response = NoResponse
    /\ lines = <<>>
    /\ transports = <<Transport("Plain", host_str(url), "LineReader")>>
    /\ requests = <<Request(url)>>
    /\ FetchIdle
    /\ ExtractIdle
    /\ SaveIdle

SpecHttp == HttpInit /\ [][HttpNext]_vars

(***************************************************************************)
(* The server's bytes as lines, read off the stream as a whole.            *)
(***************************************************************************)
StripCr(l) == IF l # <<>> /\ l[Len(l)] = "CR" THEN Take(l, Len(l) - 1) ELSE l

\* the terminated lines of S, each without its CR LF
RECURSIVE StreamLines(_)
StreamLines(S) ==
    IF memchr("LF", S) < 0 THEN <<>>
    ELSE <<StripCr(Take(S, memchr("LF", S)))>>
            \o StreamLines(Drop(S, memchr("LF", S) + 1))

(***************************************************************************)
(* http_get on a response that the transport delivers in one read: the     *)
(* first read_more fills the buffer with all of it, and a later read_more  *)
(* finds the transport at EOF.                                             *)
(***************************************************************************)
RECURSIVE HttpGetLoop(_, _, _, _)
HttpGetLoop(u, buf, off, exp) ==
    IF off > Len(buf) THEN Panic("slice index out of range")
    ELSE IF ~HasLine(buf, off) THEN Err("no data")
    ELSE IF ~Utf8Valid(LineOf(buf, off)) THEN Err("invalid utf-8")
    ELSE IF exp = "none"
    THEN IF StatusStep(LineOf(buf, off)) \in {"ContentType", "Location"}
         THEN HttpGetLoop(u, buf, OffsetAfter(buf, off), StatusStep(LineOf(buf, off)))
         ELSE Err(StatusStep(LineOf(buf, off)))
    ELSE IF HeaderStep(u, exp, LineOf(buf, off)) = Skip
    THEN HttpGetLoop(u, buf, OffsetAfter(buf, off), exp)
    ELSE HeaderStep(u, exp, LineOf(buf, off))

HttpGetWhole(u, resp) ==
    IF resp = <<>> THEN Err("no data") ELSE HttpGetLoop(u, resp, 0, "none")

(***************************************************************************)
(* request_document: the redirect loop.                                    *)
(***************************************************************************)
MAX_REDIRECTS == 5

\* what the servers may answer a request with
ServerResponses ==
    { StatusOk \o HtmlHeader \o CRLF \o Body,
      StatusOk \o <<"Content-Type", ": ", "application/pdf">> \o CRLF \o CRLF,
      StatusMoved \o <<"Location", ": ", "/", "new", "/", "path">> \o CRLF \o CRLF,
      StatusMoved \o <<"Location", ": ", "page", "?", "q=2">> \o CRLF \o CRLF,
      StatusMoved \o ServerHeader
          \o <<"location", ": ", "https:", "//", "b.org", "/", "x", "/", "y">>
          \o CRLF \o CRLF,
      StatusMoved \o <<"Location", ": ", "http:", "//", "example.com", "/", "old">>
          \o CRLF \o CRLF,
      StatusMoved \o <<"Location", ": ", "ftp:", "//", "c.net", "/", "f">> \o CRLF \o CRLF,
      <<"HTTP/1.1", " ", "404", " ", "Not", " ", "Found">> \o CRLF \o CRLF }

\* the URL strings a fetch is started with
StartUrls ==
    { <<"http:", "//", "example.com", "/", "old">>,
      <<"http:", "//", "example.com", "/", "old", "?", "q=1">>,
      <<"https:", "//", "a.org", "/", "d", "/", "e">>,
      <<"ftp:", "//", "c.net", "/", "f">>,
      <<"/", "old">> }

\* Url::parse(url_str)? fails
ParseUrlFailed ==
    /\ fpc = "parse"
    /\ ~IsAbsoluteUrl(url_str)
    /\ fres' = Err("invalid url")
    /\ fpc' = "done"
    /\ UNCHANGED <<url_str, hop, chain, locs, url, cvars>>
    /\ UNCHANGED <<buffer, capacity, stream, xvars, lvars, svars>>

ParseUrlOk ==
    /\ fpc = "parse"
    /\ IsAbsoluteUrl(url_str)
    /\ url' = UrlParse(url_str)
    /\ chain' = <<UrlParse(url_str)>>
    /\ fpc' = "loop"
    /\ UNCHANGED <<url_str, hop, fres, locs, cvars>>
    /\ UNCHANGED <<buffer, capacity, stream, xvars, lvars, svars>>

\* (mutant of InLoop: the loop takes one turn more)
InLoopOnceMore == fpc = "loop" /\ hop <= MAX_REDIRECTS

\* one more turn of for _ in 0..MAX_REDIRECTS
InLoop == fpc = "loop" /\ hop < MAX_REDIRECTS

\* (mutant of SchemeSupported: no scheme is rejected)
AnySchemeSupported(u) == u.scheme = u.scheme

SchemeSupported(u) == u.scheme = "http" \/ u.scheme = "https"

HopUnsupportedScheme ==
    /\ InLoop
    /\ ~SchemeSupported(url)
    /\ fres' = Err("only http(s) supported")
    /\ fpc' = "done"
    /\ UNCHANGED <<url_str, hop, chain, locs, url, cvars>>
    /\ UNCHANGED <<buffer, capacity, stream, xvars, lvars, svars>>

\* TcpStream::connect fails
HopConnectFailed ==
    /\ InLoop
    /\ SchemeSupported(url)
    /\ fres' = Err("connect")
    /\ fpc' = "done"
    /\ UNCHANGED <<url_str, hop, chain, locs, url, cvars>>
    /\ UNCHANGED <<buffer, capacity, stream, xvars, lvars, svars>>

\* TcpStream::connect succeeds: request_document holds tcp_stream
HopConnect ==
    /\ InLoop
    /\ SchemeSupported(url)
    /\ transports' = Append(transports, Transport("Plain", host_str(url), "request_document"))
    /\ fpc' = "connected"
    /\ UNCHANGED <<url_str, hop, fres, chain, locs, url, requests>>
    /\ UNCHANGED <<buffer, capacity, stream, xvars, lvars, svars>>

\* Scheme::Https: connector.connect(domain, tcp_stream) succeeds
HopTlsHandshake ==
    /\ fpc = "connected"
    /\ url.scheme = "https"
    /\ transports' = SetKind(transports, "Tls")
    /\ fpc' = "secured"
    /\ UNCHANGED <<url_str, hop, fres, chain, locs, url, requests>>
    /\ UNCHANGED <<buffer, capacity, stream, xvars, lvars, svars>>

\* Scheme::Https: connector.connect(domain, tcp_stream) fails
HopTlsFailed ==
    /\ fpc = "connected"
    /\ url.scheme = "https"
    /\ transports' = SetOwner(transports, "dropped")
    /\ fres' = Err("tls handshake")
    /\ fpc' = "done"
    /\ UNCHANGED <<url_str, hop, chain, locs, url, requests>>
    /\ UNCHANGED <<buffer, capacity, stream, xvars, lvars, svars>>

\* http_get is called with the transport: PlainOrTls::Plain for Scheme::Http,
\* PlainOrTls::Tls for Scheme::Https
InHttpGet ==
    \/ fpc = "connected" /\ url.scheme = "http"
    \/ fpc = "secured"

\* stream.write_all(request) fails
HopWriteFailed ==
    /\ InHttpGet
    /\ transports' = SetOwner(transports, "dropped")
    /\ fres' = Err("write")
    /\ fpc' = "done"
    /\ UNCHANGED <<url_str, hop, chain, locs, url, requests>>
    /\ UNCHANGED <<buffer, capacity, stream, xvars, lvars, svars>>

\* read_more: self.stream.read_buf(..).await.unwrap() on a read error
HopReadFailed ==
    /\ InHttpGet
    /\ requests' = Append(requests, Request(url))
    /\ transports' = SetOwner(transports, "dropped")
    /\ fres' = Panic("read error")
    /\ fpc' = "done"
    /\ UNCHANGED <<url_str, hop, chain, locs, url>>
    /\ UNCHANGED <<buffer, capacity, stream, xvars, lvars, svars>>

\* the hop's http_get writes the request and is answered resp
Hop(resp) ==
    /\ InHttpGet
    /\ resp \in ServerResponses
    /\ requests' = Append(requests, Request(url))

\* the value of the first Location header line of resp
LocationValue(resp) ==
    LET ls == StreamLines(resp)
        i  == CHOOSE i \in 1..Len(ls) :
                 /\ ls[i] # <<>>
                 /\ ls[i][1] \in {"Location", "location"}
                 /\ \A j \in 1..(i - 1) :
                       ls[j] = <<>> \/ ls[j][1] \notin {"Location", "location"}
    IN  Drop(ls[i], 2)

HopFailed ==
    \E resp \in ServerResponses :
        /\ Hop(resp)
        /\ HttpGetWhole(url, resp).kind \in {"Err", "Panic"}
        /\ transports' = SetOwner(transports, "dropped")
        /\ fres' = HttpGetWhole(url, resp)
        /\ fpc' = "done"
        /\ UNCHANGED <<url_str, hop, chain, locs, url>>
        /\ UNCHANGED <<buffer, capacity, stream, xvars, lvars, svars>>

\* HttpResponse::Ok(document): only Document::Html holds the transport
HopDocument ==
    \E resp \in ServerResponses :
        /\ Hop(resp)
        /\ HttpGetWhole(url, resp).kind \in {"Html", "Pdf", "Unsupported"}
        /\ transports' = SetOwner(transports,
                                  IF HttpGetWhole(url, resp).kind = "Html"
                                  THEN "HtmlBodyReader" ELSE "dropped")
        /\ fres' = HttpGetWhole(url, resp)
        /\ fpc' = "done"
        /\ UNCHANGED <<url_str, hop, chain, locs, url>>
        /\ UNCHANGED <<buffer, capacity, stream, xvars, lvars, svars>>

HopRedirect ==
    \E resp \in ServerResponses :
        /\ Hop(resp)
        /\ HttpGetWhole(url, resp).kind = "Redirect"
        /\ transports' = SetOwner(transports, "dropped")
        /\ url' = HttpGetWhole(url, resp).url
        /\ hop' = hop + 1
        /\ chain' = Append(chain, url')
        /\ locs' = Append(locs, LocationValue(resp))
        /\ fpc' = "loop"
        /\ UNCHANGED <<url_str, fres>>
        /\ UNCHANGED <<buffer, capacity, stream, xvars, lvars, svars>>

\* the loop ran MAX_REDIRECTS times: bail!("too many redirects")
TooManyRedirects ==
    /\ fpc = "loop"
    /\ hop = MAX_REDIRECTS
    /\ fres' = Err("too many redirects")
    /\ fpc' = "done"
    /\ UNCHANGED <<url_str, hop, chain, locs, url, cvars>>
    /\ UNCHANGED <<buffer, capacity, stream, xvars, lvars, svars>>

FetchNext ==
    \/ ParseUrlFailed
    \/ ParseUrlOk
    \/ HopUnsupportedScheme
    \/ HopConnectFailed
    \/ HopConnect
    \/ HopTlsHandshake
    \/ HopTlsFailed
    \/ HopWriteFailed
    \/ HopReadFailed
    \/ HopFailed
    \/ HopDocument
    \/ HopRedirect
    \/ TooManyRedirects

\* no http_get of its own is in progress (the hops run it to completion)
LinesIdle ==
    /\ offset = 0
    /\ hpc = "idle"
    /\ expected = "none"
    /\ response = NoResponse
    /\ lines = <<>>
    /\ sent = <<>>

FetchInit ==
    /\ url_str \in StartUrls
    /\ fpc = "parse"
    /\ url = NoUrl
    /\ hop = 0
    /\ fres = NoResponse
    /\ chain = <<>>
    /\ locs = <<>>
    /\ transports = <<>>
    /\ requests = <<>>
    /\ buffer = <<>>
    /\ capacity = HTTP_BUFFER_SIZE
    /\ stream = <<>>
    /\ LinesIdle
    /\ ExtractIdle
    /\ SaveIdle

SpecFetch == FetchInit /\ [][FetchNext]_vars

\* every connect, write and read of a hop completes (with a result or an
\* error): request_document is never suspended forever
FetchLive == FetchInit /\ [][FetchNext]_vars /\ WF_vars(FetchNext)

(***************************************************************************)
(* The documents extract_title is run on.                                  *)
(***************************************************************************)
Spellings ==
    { <<"t", "i", "t", "l", "e">>,
      <<"T", "I", "T", "L", "E">>,
      <<"T", "i", "T", "l", "E">>,
      <<"t", "I", "t", "L", "e">> }

OpenTag(name) == <<"<">> \o name \o <<">">>

CloseTag(name) == <<"<", "/">> \o name \o <<">">>

\* what precedes the title element
Prefixes ==
    { <<>>,
      <<"<", "a", ">">>,
      <<"<">>,
      <<"x", "x", "x", "x", "x", "x", "x">>,
      <<"<", "x", "C3", "A9", ">">> }

\* the title's text
Texts == { <<"R">>, <<"R", "C3", "A9", "M", "e">> }

TitleDocs ==
    { p \o OpenTag(s) \o t \o CloseTag(s) :
        p \in Prefixes, s \in Spellings, t \in Texts }

TwoTitleDocs ==
    { OpenTag(s) \o <<"A">> \o CloseTag(s) \o OpenTag(s) \o <<"B">> \o CloseTag(s) :
        s \in {HTML_TITLE_TAG} }

AttrDocs ==
    { <<"<", "t", "i", "t", "l", "e", " ", "i", "d", "=", "x", "y", "z", ">",
        "R", "<", "/", "t", "i", "t", "l", "e", ">">> }

NoTitleDocs ==
    { <<>>,
      <<"x", "x", "x", "x", "x", "x", "x", "x", "x">>,
      <<"<", "a", ">", "x", "<", "/", "a", ">">>,
      <<"<", "a", "b", "c", "d", "C3", "A9", ">">>,
      <<"<", "t", "i", "t">>,
      <<"<", "t", "i", "t", "l", "e", " ", "x">>,
      <<"<", "t", "i", "t", "l", "e", ">", "R", "e">> }

Docs == TitleDocs \cup TwoTitleDocs \cup AttrDocs \cup NoTitleDocs

Capacities == (TagLen..MaxCap) \cup {BigCap}

\* HtmlBodyReader::new(stream, buffer): any prefix of the document that fits
\* the buffer is already buffered, the rest is still to be read
ExtractInit ==
    /\ input \in Docs
    /\ capacity \in Capacities
    /\ \E k \in 0..Min(Len(input), capacity) :
          /\ buffer = Take(input, k)
          /\ stream = Drop(input, k)
    /\ prebuffered = buffer
    /\ initCap = capacity
    /\ step = "new"
    /\ state = "Start"
    /\ title = <<>>
    /\ pc = "match"
    /\ result = Pending
    /\ HttpIdle
    /\ transports = <<Transport("Plain", "example.com", "HtmlBodyReader")>>
    /\ requests = <<>>
    /\ SaveIdle

SpecExtract == ExtractInit /\ [][ExtractNext]_vars

\* extract_title is one future that the runtime keeps polling: its loop goes
\* on while an arm of it can be taken
ExtractLive == SpecExtract /\ WF_vars(ExtractNext)


(***************************************************************************)
(* extract_title between two reads: the arms of the loop are taken until   *)
(* one of them needs a read (result Pending) or returns.                   *)
(***************************************************************************)
Reading(st, ttl, buf) == [state |-> st, title |-> ttl, buffer |-> buf, result |-> Pending]

Returned(res) == [state |-> "Start", title |-> <<>>, buffer |-> <<>>, result |-> res]

RECURSIVE ExtractScan(_, _, _)
ExtractScan(st, ttl, buf) ==
    CASE st = "Start" ->
           IF memchr("<", buf) >= 0
           THEN ExtractScan("Name", ttl, StartDrain(buf))
           ELSE Reading("Start", ttl, StartRetain(buf))
      [] st = "Name" ->
           IF Len(buf) < TagLen THEN Reading("Name", ttl, buf)
           ELSE IF ~Utf8Valid(Take(buf, TagLen)) THEN Returned(ErrUtf8)
           ELSE IF eq_ignore_ascii_case(HTML_TITLE_TAG, Take(buf, TagLen))
           THEN ExtractScan("Attributes", ttl, buf)
           ELSE Reading("Start", ttl, buf)
      [] st = "Attributes" ->
           IF memchr(">", buf) >= 0
           THEN Reading("Value", <<>>, AttributesDrain(buf))
           ELSE Reading("Attributes", ttl, <<>>)
      [] OTHER ->
           IF memchr("<", buf) >= 0
           THEN Returned(OkSome(from_utf8_lossy(ttl \o Take(buf, memchr("<", buf)))))
           ELSE Reading("Value", ttl \o buf, <<>>)

(***************************************************************************)
(* main.rs: add_article, extract_article and store_article.  Each save     *)
(* request is a task of its own; the articles table behind the             *)
(* db_connection mutex is all they share.                                  *)
(***************************************************************************)
Procs == {1, 2}

NoArticle == [url |-> NoUrl, title |-> <<>>]

\* the last path segment of a URL, "" for none
LastSegment(u) == IF u.path = <<>> THEN "" ELSE u.path[Len(u.path)]

\* (mutant of extract_article: the title read from the document is ignored)
extract_article_untitled(doc, res) ==
    [url |-> doc.url,
     title |-> CASE doc.kind = "Unsupported" -> <<"[???] ", doc.url>>
                 [] doc.kind = "Pdf" -> <<"[PDF] ", LastSegment(doc.url)>>
                 [] OTHER -> <<"[NO TITLE]">>]

\* extract_article on a document and, for Html, extract_title's Ok result
extract_article(doc, res) ==
    [url |-> doc.url,
     title |-> CASE doc.kind = "Unsupported" -> <<"[???] ", doc.url>>
                 [] doc.kind = "Pdf" -> <<"[PDF] ", LastSegment(doc.url)>>
                 [] OTHER -> IF res.kind = "Some" THEN res.val ELSE <<"[NO TITLE]">>]

\* Uuid::new_v5(NAMESPACE_URL, url): a function of the URL alone
guid(u) == <<"uuid5", u>>

\* the row store_article inserts: (title, link, guid, current_timestamp)
Row(article, ts) ==
    [title |-> article.title, link |-> article.url, guid |-> guid(article.url),
     timestamp |-> ts]

\* DELETE FROM articles WHERE guid = ?
DeleteGuid(rows, g) == SelectSeq(rows, LAMBDA r : r.guid # g)

\* (mutant of store_article: the row is inserted, the guid's old rows stay)
store_article_insert_only(rows, article, ts) == Append(rows, Row(article, ts))

\* store_article's transaction: DELETE the rows of the guid, INSERT the row
store_article(rows, article, ts) ==
    Append(DeleteGuid(rows, guid(article.url)), Row(article, ts))

\* delete_article's transaction
delete_article(rows, g) == DeleteGuid(rows, g)

\* delete_old_articles' transaction: the rows older than ttl days go
delete_old_articles(rows, ttl, ts) ==
    SelectSeq(rows, LAMBDA r : ~(ts - r.timestamp > ttl))

\* weekofyear(current_timestamp), the year starting on day 0
weekofyear(ts) == ts \div 7

\* update_weekly_stats: INSERT OR REPLACE this week's count of all the rows,
\* DELETE the weeks after this one
update_weekly_stats(st, rows, ts) ==
    [w \in {v \in DOMAIN st \cup {weekofyear(ts)} : v <= weekofyear(ts)} |->
        IF w = weekofyear(ts) THEN Len(rows) ELSE st[w]]

\* the chunks a server delivers, read by read, on a connection for the URL u
TitleChunks(t) ==
    << StatusOk \o HtmlHeader \o CRLF \o <<"<", "t", "i", "t", "l", "e", ">">>,
       <<t>>,
       <<"<", "/", "t", "i", "t", "l", "e", ">">> >>

ServerOf(u) ==
    CASE u.host = "a.org" -> TitleChunks("A")
      [] u.host = "b.org" /\ u.path = <<"2">> ->
           << StatusMoved \o <<"Location", ": ", "/", "3">> \o CRLF \o CRLF >>
      [] u.host = "b.org" /\ u.path = <<"3">> -> TitleChunks("B")
      [] u.host = "c.net" ->
           << StatusOk \o <<"Content-Type", ": ", "application/pdf">> \o CRLF \o CRLF >>
      [] OTHER ->
           << <<"HTTP/1.1", " ", "404", " ", "Not", " ", "Found">> \o CRLF \o CRLF >>

\* the URLs the save requests are made for
SaveUrls ==
    { <<"http:", "//", "a.org", "/", "1">>,
      <<"https:", "//", "b.org", "/", "2">>,
      <<"http:", "//", "c.net", "/", "f.pdf">>,
      <<"ftp:", "//", "c.net", "/", "f">>,
      <<"1">> }

\* a save request as handle_save_article receives it
NewSave(u) ==
    [url_str |-> u, pc |-> "parse", url |-> NoUrl, hop |-> 0, chunks |-> <<>>,
     doc |-> NoResponse, reader |-> Returned(Pending), article |-> NoArticle,
     status |-> "pending", cause |-> "none", wrote |-> FALSE]

\* add_article returns Err: handle_save_article answers INTERNAL_SERVER_ERROR
Failed(s, cause) ==
    [s EXCEPT !.pc = "done", !.status = "INTERNAL_SERVER_ERROR", !.cause = cause,
              !.chunks = <<>>]

\* the task panics: handle_save_article does not return
Panicked(s, cause) ==
    [s EXCEPT !.pc = "done", !.status = "panicked", !.cause = cause, !.chunks = <<>>]

\* fetch_and_extract returned Ok(article): the timeout is over
Extracted(s, article) ==
    [s EXCEPT !.pc = "lock", !.article = article, !.chunks = <<>>]

\* the suspension points of fetch_and_extract
AwaitPcs == {"connect", "write", "head", "body"}

SaveUnchanged ==
    UNCHANGED <<buffer, capacity, stream, xvars, lvars, url, fvars, cvars>>

\* request_document: Url::parse(url_str)
AddParse(p) ==
    /\ saves[p].pc = "parse"
    /\ saves' = [saves EXCEPT ![p] =
                   IF IsAbsoluteUrl(@.url_str)
                   THEN [@ EXCEPT !.pc = "connect", !.url = UrlParse(saves[p].url_str)]
                   ELSE Failed(@, "fetch")]
    /\ UNCHANGED <<articles, db_lock, now, stats, op>>
    /\ SaveUnchanged

\* request_document: the top of the loop up to the connection
AddConnect(p) ==
    /\ saves[p].pc = "connect"
    /\ saves' = [saves EXCEPT ![p] =
                   IF @.hop < MAX_REDIRECTS /\ SchemeSupported(@.url)
                   THEN [@ EXCEPT !.pc = "write"]
                   ELSE Failed(@, "fetch")]
    /\ UNCHANGED <<articles, db_lock, now, stats, op>>
    /\ SaveUnchanged

\* http_get: write_all(request); the server's answer is on its way
AddWrite(p) ==
    /\ saves[p].pc = "write"
    /\ saves' = [saves EXCEPT ![p] =
                   [@ EXCEPT !.pc = "head", !.chunks = ServerOf(saves[p].url)]]
    /\ UNCHANGED <<articles, db_lock, now, stats, op>>
    /\ SaveUnchanged

\* connect, the TLS handshake, write_all or extract_title's read_buf fails
AddIoFailed(p) ==
    /\ saves[p].pc \in {"connect", "write", "body"}
    /\ saves' = [saves EXCEPT ![p] =
                   Failed(@, IF @.pc = "body" THEN "extract" ELSE "fetch")]
    /\ UNCHANGED <<articles, db_lock, now, stats, op>>
    /\ SaveUnchanged

\* http_get: read_more's read_buf fails and is unwrapped
AddReadHeadFailed(p) ==
    /\ saves[p].pc = "head"
    /\ saves' = [saves EXCEPT ![p] = Panicked(@, "fetch")]
    /\ UNCHANGED <<articles, db_lock, now, stats, op>>
    /\ SaveUnchanged

\* what http_get's answer makes of the save: the first read holds the status
\* line and the headers
AfterHead(s, r) ==
    CASE r.kind \in {"Err", "Panic"} -> Failed(s, "fetch")
      [] r.kind = "Redirect" ->
           [s EXCEPT !.pc = "connect", !.url = r.url, !.hop = @ + 1, !.chunks = <<>>]
      [] r.kind \in {"Pdf", "Unsupported"} -> Extracted(s, extract_article(r, OkNone))
      [] OTHER ->
           LET scan == ExtractScan("Start", <<>>, s.chunks[1])
           IN  IF scan.result.kind = "Pending"
               THEN [s EXCEPT !.pc = "body", !.doc = r, !.reader = scan,
                              !.chunks = Tail(@)]
               ELSE IF scan.result.kind = "Err" THEN Failed(s, "extract")
               ELSE Extracted(s, extract_article(r, scan.result))

\* http_get reads the response's head; for Html, extract_title starts on the
\* buffer handed over
AddReadHead(p) ==
    /\ saves[p].pc = "head"
    /\ saves' = [saves EXCEPT ![p] =
                   AfterHead(@, HttpGetWhole(@.url,
                                   IF @.chunks = <<>> THEN <<>> ELSE @.chunks[1]))]
    /\ UNCHANGED <<articles, db_lock, now, stats, op>>
    /\ SaveUnchanged

\* what one read_buf of extract_title makes of the save; no chunk left is EOF
AfterBody(s) ==
    IF s.chunks = <<>> THEN Extracted(s, extract_article(s.doc, OkNone))
    ELSE LET scan == ExtractScan(s.reader.state, s.reader.title,
                                 s.reader.buffer \o s.chunks[1])
         IN  IF scan.result.kind = "Pending"
             THEN [s EXCEPT !.reader = scan, !.chunks = Tail(@)]
             ELSE IF scan.result.kind = "Err" THEN Failed(s, "extract")
             ELSE Extracted(s, extract_article(s.doc, scan.result))

AddReadBody(p) ==
    /\ saves[p].pc = "body"
    /\ saves' = [saves EXCEPT ![p] = AfterBody(@)]
    /\ UNCHANGED <<articles, db_lock, now, stats, op>>
    /\ SaveUnchanged

\* timeout(Duration::from_secs(5), fetch_and_extract) elapses at an await
AddElapsed(p) ==
    /\ saves[p].pc \in AwaitPcs
    /\ saves' = [saves EXCEPT ![p] = Failed(@, "deadline")]
    /\ UNCHANGED <<articles, db_lock, now, stats, op>>
    /\ SaveUnchanged

\* db_connection.lock()
AddLock(p) ==
    /\ saves[p].pc = "lock"
    /\ db_lock = 0
    /\ db_lock' = p
    /\ saves' = [saves EXCEPT ![p].pc = "store"]
    /\ UNCHANGED <<articles, now, stats, op>>
    /\ SaveUnchanged

\* store_article commits; the lock is released at the end of add_article
AddStore(p) ==
    /\ saves[p].pc = "store"
    /\ db_lock = p
    /\ articles' = store_article(articles, saves[p].article, now)
    /\ stats' = update_weekly_stats(stats, articles', now)
    /\ db_lock' = 0
    /\ UNCHANGED <<now, op>>
    /\ saves' = [saves EXCEPT ![p] = [@ EXCEPT !.pc = "done", !.status = "OK",
                                                !.wrote = TRUE]]
    /\ SaveUnchanged

\* a statement of store_article fails: the transaction is rolled back
AddStoreFailed(p) ==
    /\ saves[p].pc = "store"
    /\ db_lock = p
    /\ db_lock' = 0
    /\ saves' = [saves EXCEPT ![p] = Failed(@, "store")]
    /\ UNCHANGED <<articles, now, stats, op>>
    /\ SaveUnchanged

SaveNext ==
    \E p \in Procs :
        \/ AddParse(p)
        \/ AddConnect(p)
        \/ AddWrite(p)
        \/ AddIoFailed(p)
        \/ AddReadHeadFailed(p)
        \/ AddReadHead(p)
        \/ AddReadBody(p)
        \/ AddElapsed(p)
        \/ AddLock(p)
        \/ AddStore(p)
        \/ AddStoreFailed(p)

SaveInit ==
    /\ saves \in [Procs -> {NewSave(u) : u \in SaveUrls}]
    /\ articles = <<>>
    /\ db_lock = 0
    /\ now = 0
    /\ stats = <<>>
    /\ op = NoOp
    /\ buffer = <<>>
    /\ capacity = HTTP_BUFFER_SIZE
    /\ stream = <<>>
    /\ url = NoUrl
    /\ transports = <<>>
    /\ requests = <<>>
    /\ LinesIdle
    /\ FetchIdle
    /\ ExtractIdle

SpecSave == SaveInit /\ [][SaveNext]_vars

(***************************************************************************)
(* main.rs: the transactions on the articles table.  A handler takes the   *)
(* db_connection mutex and runs its transaction without an await in        *)
(* between, on a current_thread runtime: each transaction is one step.     *)
(* The articles stored are those extract_article returns: a document's     *)
(* final URL and the title found for it.                                   *)
(***************************************************************************)
\* the number of transactions of a run
MaxOps == 4

\* the last day of a run; the first is day 0
MaxDay == 8

\* args.ttl, in days
Ttl == 1

StoreUrls ==
    { UrlParse(<<"http:", "//", "a.org", "/", "1">>),
      UrlParse(<<"https:", "//", "b.org", "/", "2">>) }

\* the articles add_article can hand to store_article
StoreArticles == [url : StoreUrls, title : { <<"A">>, <<"B">>, <<"[NO TITLE]">> }]

\* the guid field of a delete form: a stored guid or any other text
DeleteGuids == {guid(u) : u \in StoreUrls} \cup {<<"no-such-guid">>}

\* handle_save_article, add_article succeeding: lock, store_article, unlock
StoreSave(article) ==
    /\ op.n < MaxOps
    /\ db_lock = 0
    /\ articles' = store_article(articles, article, now)
    /\ stats' = update_weekly_stats(stats, articles', now)
    /\ op' = [n |-> op.n + 1, kind |-> "save", guid |-> guid(article.url),
              article |-> article,
              before |-> SelectSeq(articles, LAMBDA r : r.guid = guid(article.url))]
    /\ UNCHANGED <<db_lock, now>>
    /\ UNCHANGED saves
    /\ SaveUnchanged

\* store_article or delete_article: a statement fails and `?` returns before
\* the commit; the transaction is rolled back when it is dropped
StoreRolledBack(g) ==
    /\ op.n < MaxOps
    /\ db_lock = 0
    /\ op' = [n |-> op.n + 1, kind |-> "rollback", guid |-> g, article |-> <<>>,
              before |-> <<>>]
    /\ UNCHANGED <<articles, stats, db_lock, now>>
    /\ UNCHANGED saves
    /\ SaveUnchanged

\* handle_delete_article: lock, delete_article, unlock
StoreDelete(g) ==
    /\ op.n < MaxOps
    /\ db_lock = 0
    /\ articles' = delete_article(articles, g)
    /\ stats' = update_weekly_stats(stats, articles', now)
    /\ op' = [n |-> op.n + 1, kind |-> "delete", guid |-> g, article |-> <<>>,
              before |-> SelectSeq(articles, LAMBDA r : r.guid = g)]
    /\ UNCHANGED <<db_lock, now>>
    /\ UNCHANGED saves
    /\ SaveUnchanged

\* handle_get_feed: lock, delete_old_articles, (the feed is read), unlock
StoreExpire ==
    /\ op.n < MaxOps
    /\ db_lock = 0
    /\ articles' = delete_old_articles(articles, Ttl, now)
    /\ stats' = update_weekly_stats(stats, articles', now)
    /\ op' = [n |-> op.n + 1, kind |-> "expire", guid |-> <<>>, article |-> <<>>,
              before |-> <<>>]
    /\ UNCHANGED <<db_lock, now>>
    /\ UNCHANGED saves
    /\ SaveUnchanged

\* a day passes
StoreTick ==
    /\ now < MaxDay
    /\ now' = now + 1
    /\ UNCHANGED <<articles, stats, db_lock, op>>
    /\ UNCHANGED saves
    /\ SaveUnchanged

StoreNext ==
    \/ \E article \in StoreArticles : StoreSave(article)
    \/ \E g \in DeleteGuids : StoreRolledBack(g)
    \/ \E g \in DeleteGuids : StoreDelete(g)
    \/ StoreExpire
    \/ StoreTick

\* setup_tables on a new database file: both tables are empty
StoreInit ==
    /\ SaveIdle
    /\ buffer = <<>>
    /\ capacity = HTTP_BUFFER_SIZE
    /\ stream = <<>>
    /\ url = NoUrl
    /\ transports = <<>>
    /\ requests = <<>>
    /\ LinesIdle
    /\ FetchIdle
    /\ ExtractIdle

SpecStore == StoreInit /\ [][StoreNext]_vars

(***************************************************************************)
(* The claims.                                                             *)
(***************************************************************************)

(***************************************************************************)
(* What a document's title is, read off the document as a whole.           *)
(***************************************************************************)
\* a title tag name (in any case) follows the "<" at index i of S
TitleTagAt(S, i) ==
    /\ i + TagLen <= Len(S)
    /\ S[i] = "<"
    /\ eq_ignore_ascii_case(HTML_TITLE_TAG, SubSeq(S, i + 1, i + TagLen))

HasTitleTag(S) == \E i \in 1..Len(S) : TitleTagAt(S, i)

FirstTitleTag(S) ==
    CHOOSE i \in 1..Len(S) :
        TitleTagAt(S, i) /\ \A j \in 1..(i - 1) : ~TitleTagAt(S, j)

\* the index of the first b of S after index i, 0 when there is none
IndexAfter(S, b, i) ==
    IF \E k \in (i + 1)..Len(S) : S[k] = b
    THEN CHOOSE k \in (i + 1)..Len(S) :
            S[k] = b /\ \A j \in (i + 1)..(k - 1) : S[j] # b
    ELSE 0

TitleGt(S) == IndexAfter(S, ">", FirstTitleTag(S) + TagLen)

TitleLt(S) == IndexAfter(S, "<", TitleGt(S))

\* S holds a complete <title ...>T</title> element
HasTitleElement(S) ==
    /\ HasTitleTag(S)
    /\ TitleGt(S) > 0
    /\ TitleLt(S) > 0
    /\ TitleLt(S) + TagLen + 2 <= Len(S)
    /\ S[TitleLt(S) + 1] = "/"
    /\ eq_ignore_ascii_case(HTML_TITLE_TAG,
                            SubSeq(S, TitleLt(S) + 2, TitleLt(S) + TagLen + 1))
    /\ S[TitleLt(S) + TagLen + 2] = ">"

\* the bytes between the first title tag's ">" and the next "<"
TitleBytes(S) == SubSeq(S, TitleGt(S) + 1, TitleLt(S) - 1)

\* the number of title tags of S
TitleTagCount(S) == Cardinality({i \in 1..Len(S) : TitleTagAt(S, i)})

Done == pc = "done"

\* the set of the rows of a table
Rows(tbl) == {tbl[i] : i \in DOMAIN tbl}

(***************************************************************************)
(* What http_get has consumed, read off the server's bytes as a whole.     *)
(***************************************************************************)
\* every LF of S follows a CR
CrlfOnly(S) == \A i \in 1..Len(S) : S[i] = "LF" => (i > 1 /\ S[i - 1] = "CR")

IsPrefix(a, b) == Len(a) <= Len(b) /\ a = Take(b, Len(a))

\* the number of bytes of S up to the LF ending its first Content-Type header
\* line, the n lines before pos being consumed already (0: there is none)
RECURSIVE ContentTypeEnd(_, _, _)
ContentTypeEnd(S, pos, n) ==
    IF memchr("LF", Drop(S, pos)) < 0 THEN 0
    ELSE LET e == pos + memchr("LF", Drop(S, pos)) + 1
             l == SubSeq(S, pos + 1, e - 1)
         IN  IF n >= 1 /\ l # <<>>
                /\ (l[1] = "Content-Type" \/ l[1] = "content-type")
             THEN e
             ELSE ContentTypeEnd(S, e, n + 1)

\* the bytes the transport has delivered so far
Delivered == Take(sent, Len(sent) - Len(stream))

(***************************************************************************)
(* C1: whenever the document holds a complete title element and some of    *)
(* its bytes were already in the buffer when extract_title started, the    *)
(* extraction returns Some(title): no buffered byte is lost or left        *)
(* unexamined.                                                             *)
(***************************************************************************)
C1_BufferedBytesNotLost ==
    (Done /\ prebuffered # <<>> /\ HasTitleElement(input))
        => result = OkSome(from_utf8_lossy(TitleBytes(input)))

(***************************************************************************)
(* C2: a valid UTF-8 document without a title tag ends in Ok(None), never  *)
(* in an error.                                                            *)
(***************************************************************************)
C2_NoTitleIsNone ==
    (Done /\ Utf8Valid(input) /\ ~HasTitleTag(input)) => result = OkNone

(***************************************************************************)
(* C3: whatever the upper/lower-case spelling of the opening tag's name    *)
(* and whatever tags precede it, the extraction returns the text between   *)
(* the opening tag's ">" and the next "<".                                 *)
(***************************************************************************)
C3_CaseInsensitiveTitle ==
    (/\ Done
     /\ HasTitleElement(input)
     /\ SubSeq(input, FirstTitleTag(input) + 1, FirstTitleTag(input) + TagLen)
            # HTML_TITLE_TAG)
        => result = OkSome(from_utf8_lossy(TitleBytes(input)))

(***************************************************************************)
(* C4 as stated: up to 5 consecutive redirects are followed, so the fetch  *)
(* fails with too-many-redirects only when the server redirected 6 times.  *)
(***************************************************************************)
C4_FiveRedirectsFollowed ==
    fres = Err("too many redirects") => Len(locs) >= 6

(***************************************************************************)
(* C5: the line reader loses no byte on a refill: whatever the chunking,   *)
(* the lines next_line returns are the stream's lines, in order and whole. *)
(***************************************************************************)
C5_NoBytesLostOnRefill ==
    CrlfOnly(sent) => IsPrefix(lines, StreamLines(sent))

(***************************************************************************)
(* C6: at hand-off for an Html document the extractor's buffer holds       *)
(* exactly the delivered bytes that follow the Content-Type header line,   *)
(* and none of the consumed status and header lines.                       *)
(***************************************************************************)
C6_HandOffRemainingBytes ==
    response.kind = "Html"
        => buffer = Drop(Delivered, ContentTypeEnd(sent, 0, 0))

\* next is the Location value v resolved against base: an absolute v names
\* next itself, a v starting with "/" replaces base's path, any other v
\* replaces the last segment of base's path
ResolvedAgainst(base, v, next) ==
    LET ref == IF memchr("?", v) < 0 THEN v ELSE Take(v, memchr("?", v))
        at(scheme, host, segs) ==
            next.scheme = scheme /\ next.host = host /\ next.path = segs
    IN  IF IsAbsoluteUrl(v)
        THEN at(SchemeOf(v[1]), v[3], PathSegments(Drop(ref, 3)))
        ELSE IF ref[1] = "/"
        THEN at(base.scheme, base.host, PathSegments(ref))
        ELSE at(base.scheme, base.host, AllButLast(base.path) \o PathSegments(ref))

(***************************************************************************)
(* C7: a relative Location is resolved against the URL of the hop that     *)
(* returned it, an absolute Location replaces the URL: for every hop i,    *)
(* chain[i + 1] is locs[i] resolved against chain[i].                      *)
(***************************************************************************)
C7_RelativeLocationAgainstPreviousUrl ==
    /\ (locs = <<>> \/ Len(chain) = Len(locs) + 1)
    /\ \A i \in 1..Len(locs) : ResolvedAgainst(chain[i], locs[i], chain[i + 1])
    /\ \A i \in 1..Len(locs) :
          (chain[i] = ExampleOld /\ locs[i] = <<"/", "new", "/", "path">>)
             => chain[i + 1] = MkUrl("http", "example.com", <<"new", "path">>)

\* a relative Location was received from a hop on another host than the
\* fetch started with, and the next URL is on that hop's host
C7_Witness ==
    /\ Len(locs) >= 2
    /\ ~IsAbsoluteUrl(locs[2])
    /\ chain[2].host # chain[1].host
    /\ chain[3].host = chain[2].host

(***************************************************************************)
(* C8: with an initial capacity larger than the tag name, the buffer is    *)
(* never grown: its length stays within the initial capacity and the       *)
(* capacity stays what it was.                                             *)
(***************************************************************************)
C8_BufferBounded ==
    initCap > TagLen => (Len(buffer) <= initCap /\ capacity = initCap)

(***************************************************************************)
(* C9 as stated: after the Start state's discard step (no "<" in the       *)
(* buffer) at most tag-name-length - 1 = 4 bytes are retained.             *)
(***************************************************************************)
C9_RetainsAtMostFour ==
    step = "StartNone" => Len(buffer) <= TagLen - 1

(***************************************************************************)
(* C9 as amended: after the Start state's discard step (no "<" in the      *)
(* buffer) at most tag-name-length = 5 bytes are retained.                 *)
(***************************************************************************)
C9_RetainsAtMostTagLen ==
    step = "StartNone" => Len(buffer) <= TagLen

\* the discard step dropped bytes and kept exactly tag-name-length of them
C9_Witness ==
    /\ step = "StartNone"
    /\ Len(buffer) = TagLen
    /\ Len(buffer) + Len(stream) < Len(input)

(***************************************************************************)
(* C10: of several title elements the first one's text is returned, and    *)
(* once the "<" ending that text is in the buffer no transport read is     *)
(* issued any more.                                                        *)
(***************************************************************************)
C10_FirstTitleNoFurtherRead ==
    /\ (Done /\ HasTitleElement(input) /\ TitleTagCount(input) >= 2)
          => result = OkSome(from_utf8_lossy(TitleBytes(input)))
    /\ (pc = "read" /\ state = "Value") => memchr("<", buffer) < 0

(***************************************************************************)
(* C11.  http_get's decision on the status line is the table: the line is  *)
(* split on single spaces; a first token other than HTTP/1.1 fails the     *)
(* fetch; status 200 or 203 makes Content-Type the expected header; status *)
(* 300, 301, 302, 303, 307 or 308 makes Location the expected header;      *)
(* every other status token, and a missing one, fails the fetch.           *)
(***************************************************************************)
\* the n-th of the space-separated tokens of a line, <<"absent">> when missing
StatusToken(line, n) ==
    IF Len(SplitOn(line, " ")) >= n THEN SplitOn(line, " ")[n] ELSE <<"absent">>

ContentStatuses == {"200", "203"}

RedirectStatuses == {"300", "301", "302", "303", "307", "308"}

\* the expected header the table gives for a status line, "fail" for none
StatusTable(line) ==
    IF StatusToken(line, 1) # <<"HTTP/1.1">> THEN "fail"
    ELSE IF \E c \in ContentStatuses : StatusToken(line, 2) = <<c>> THEN "ContentType"
    ELSE IF \E r \in RedirectStatuses : StatusToken(line, 2) = <<r>> THEN "Location"
    ELSE "fail"

C11_StatusTable ==
    Len(lines) >= 1 =>
        IF StatusTable(lines[1]) = "fail"
        THEN /\ expected = "none"
             /\ hpc = "done"
             /\ response.kind = "Err"
             /\ Len(lines) = 1
        ELSE expected = StatusTable(lines[1])

C11_Witness ==
    /\ Len(lines) >= 2
    /\ StatusToken(lines[1], 2) = <<"308">>
    /\ expected = "Location"
    /\ response.kind = "Redirect"

(***************************************************************************)
(* C12.  The Content-Type classification: the media type is the header     *)
(* value up to its first ";"; the document is Html iff the media type is   *)
(* text/html, TEXT/HTML, application/xhtml+xml or APPLICATION/XHTML+XML,   *)
(* Pdf iff it is application/pdf or APPLICATION/PDF, Unsupported           *)
(* otherwise; "APPLICATION/XHTML+XML; charset=utf-8" is Html; and only an  *)
(* Html document holds the transport (in its title extractor).             *)
(***************************************************************************)
\* the value of a header line: what follows its first ": "
ValueOfHeader(line) == SubSeq(line, memchr(": ", line) + 2, Len(line))

\* the media type of a header value: what precedes its first ";"
MediaTypeOf(value) ==
    IF \E i \in 1..Len(value) : value[i] = ";"
    THEN SubSeq(value, 1, memchr(";", value))
    ELSE value

HtmlMediaTypes ==
    {"text/html", "TEXT/HTML", "application/xhtml+xml", "APPLICATION/XHTML+XML"}

PdfMediaTypes == {"application/pdf", "APPLICATION/PDF"}

MediaTable(media) ==
    IF \E h \in HtmlMediaTypes : media = <<h>> THEN "Html"
    ELSE IF \E f \in PdfMediaTypes : media = <<f>> THEN "Pdf"
    ELSE "Unsupported"

C12_ContentTypeClassification ==
    response.kind \in {"Html", "Pdf", "Unsupported"} =>
        LET line == lines[Len(lines)]
        IN  /\ response.kind = MediaTable(MediaTypeOf(ValueOfHeader(line)))
            /\ ValueOfHeader(line) = <<"APPLICATION/XHTML+XML", ";", " ", "charset=utf-8">>
                   => response.kind = "Html"
            /\ transports[Len(transports)].owner =
                   (IF response.kind = "Html" THEN "HtmlBodyReader" ELSE "dropped")

C12_Witness ==
    /\ response.kind = "Html"
    /\ ValueOfHeader(lines[Len(lines)]) =
          <<"APPLICATION/XHTML+XML", ";", " ", "charset=utf-8">>
    /\ transports[Len(transports)].owner = "HtmlBodyReader"

(***************************************************************************)
(* C13.  The request written on every hop is                               *)
(* GET <path[?query]> HTTP/1.1 followed by the headers Host,               *)
(* Connection: close, an empty Accept-Encoding, Accept and User-Agent: the *)
(* request target is the hop's URL's path, followed by "?" and the query   *)
(* when the URL has one.                                                   *)
(***************************************************************************)
\* the request target of a URL: its path and, if it has one, "?" and its query
RequestTarget(u) ==
    (IF u.path = <<>> THEN <<"/">>
     ELSE [i \in 1..(2 * Len(u.path)) |->
             IF i % 2 = 1 THEN "/" ELSE u.path[i \div 2]])
      \o (IF u.query = "" THEN <<>> ELSE <<"?", u.query>>)

WireRequest(u) ==
    <<"GET", " ">> \o RequestTarget(u) \o <<" ", "HTTP/1.1", "CR", "LF",
      "Host", ": ", u.host, "CR", "LF",
      "Connection", ": ", "close", "CR", "LF",
      "Accept-Encoding", ": ", "CR", "LF",
      "Accept", ": ", "text/html,application/xhtml+xml,application/pdf,*/*;q=0",
      "CR", "LF",
      "User-Agent", ": ", "paket", "CR", "LF",
      "CR", "LF">>

C13_RequestTargetHasQuery ==
    \A i \in 1..Len(requests) : requests[i] = WireRequest(chain[i])

(***************************************************************************)
(* C14.  The scheme is validated at every hop: a connection is only ever   *)
(* opened for a URL (the initial one or a redirect target) whose scheme is *)
(* http or https; a URL with another scheme fails the fetch with no        *)
(* connection opened for it; the transport handed to http_get is plaintext *)
(* for http and TLS for https.                                             *)
(***************************************************************************)
HttpSchemes == {"http", "https"}

C14_SchemeValidatedAtEveryHop ==
    /\ Len(transports) <= Len(chain)
    /\ \A i \in 1..Len(transports) :
          /\ chain[i].scheme \in HttpSchemes
          /\ transports[i].host = chain[i].host
    /\ \A i \in 1..Len(requests) :
          transports[i].kind = (IF chain[i].scheme = "https" THEN "Tls" ELSE "Plain")
    /\ \A i \in 1..Len(chain) :
          chain[i].scheme \notin HttpSchemes =>
              /\ i = Len(chain)
              /\ Len(transports) = i - 1
              /\ fpc = "done" => fres.kind = "Err"

\* a redirect led to a URL that is neither http nor https
C14_Witness ==
    /\ fpc = "done"
    /\ Len(chain) = 3
    /\ chain[2].scheme = "https"
    /\ chain[3].scheme = "ftp"
    /\ Len(transports) = 2
    /\ transports[2].kind = "Tls"
    /\ fres = Err("only http(s) supported")

(***************************************************************************)
(* C15.  A save records an article only when the fetch and the title       *)
(* extraction completed successfully inside the deadline: when             *)
(* request_document fails, extract_title fails or the deadline expires,    *)
(* the save has written no row and reports failure                         *)
(* (INTERNAL_SERVER_ERROR); the articles table holds exactly the rows of   *)
(* the saves that succeeded.                                               *)
(***************************************************************************)
C15_FailedSaveRecordsNothing ==
    /\ \A p \in DOMAIN saves :
          /\ saves[p].cause \in {"fetch", "extract", "deadline"}
                => /\ ~saves[p].wrote
                   /\ saves[p].status = "INTERNAL_SERVER_ERROR"
          /\ saves[p].wrote => saves[p].cause = "none" /\ saves[p].status = "OK"
    /\ Rows(articles) = {Row(saves[p].article, now) : p \in {q \in DOMAIN saves : saves[q].wrote}}
    /\ Len(articles) = Cardinality(Rows(articles))

(***************************************************************************)
(* C16.  request_document terminates when every connect and read of its    *)
(* hops completes; it opens at most 5 (MAX_REDIRECTS) connections in one   *)
(* fetch, at most one per URL it visits, so no failed hop is retried; and  *)
(* a redirect cycle between two servers that lasts MAX_REDIRECTS hops ends *)
(* in the too-many-redirects failure.                                      *)
(***************************************************************************)
\* the URLs visited alternate between two URLs
IsCycle(urls) ==
    /\ Len(urls) >= 3
    /\ urls[1] # urls[2]
    /\ \A i \in 3..Len(urls) : urls[i] = urls[i - 2]

C16_FetchTerminates ==
    /\ <>(fpc = "done")
    /\ [](/\ Len(transports) <= MAX_REDIRECTS
          /\ Len(transports) <= Len(chain)
          /\ fres.kind \in {"Err", "Panic"} => fpc = "done")
    /\ []((IsCycle(chain) /\ hop = MAX_REDIRECTS)
             => <>(fres = Err("too many redirects")))

C16_Witness ==
    /\ IsCycle(chain)
    /\ Len(chain) = MAX_REDIRECTS + 1
    /\ Len(transports) = MAX_REDIRECTS
    /\ fres = Err("too many redirects")

(***************************************************************************)
(* C17.  A transport read error while the LineReader reads the status line *)
(* or a header line reaches the caller of request_document as an error     *)
(* result: the fetch does not panic.                                       *)
(***************************************************************************)
C17_ReadErrorIsAnError ==
    fres.why = "read error" => fres.kind = "Err"

(***************************************************************************)
(* C18.  Concurrent saves have no cross-talk: whatever the interleaving of *)
(* two save requests, a request that succeeds has recorded its own final   *)
(* URL with the title served on its own connection, which is the article   *)
(* it records when run alone; only the URLs that can be saved alone are    *)
(* saved; and a step of one request leaves the other request's state       *)
(* (transport, buffer, extractor) as it was.                               *)
(***************************************************************************)
\* the article each URL yields when its save runs alone and nothing fails
AloneArticle ==
    [u \in { <<"http:", "//", "a.org", "/", "1">>,
             <<"https:", "//", "b.org", "/", "2">>,
             <<"http:", "//", "c.net", "/", "f.pdf">> } |->
        CASE u[3] = "a.org" ->
               [url |-> [scheme |-> "http", host |-> "a.org", path |-> <<"1">>, query |-> ""],
                title |-> <<"A">>]
          [] u[3] = "b.org" ->
               [url |-> [scheme |-> "https", host |-> "b.org", path |-> <<"3">>, query |-> ""],
                title |-> <<"B">>]
          [] OTHER ->
               [url |-> [scheme |-> "http", host |-> "c.net", path |-> <<"f.pdf">>, query |-> ""],
                title |-> <<"[PDF] ", "f.pdf">>]]

OwnArticleRecorded ==
    /\ \A p \in DOMAIN saves :
          saves[p].status = "OK" =>
              /\ saves[p].url_str \in DOMAIN AloneArticle
              /\ saves[p].article = AloneArticle[saves[p].url_str]
              /\ \E r \in Rows(articles) :
                    /\ r.link = saves[p].article.url
                    /\ r.title = saves[p].article.title
    /\ \A r \in Rows(articles) :
          \E p \in DOMAIN saves :
              /\ saves[p].wrote
              /\ r.link = AloneArticle[saves[p].url_str].url
              /\ r.title = AloneArticle[saves[p].url_str].title

OneRequestPerStep ==
    \A p \in DOMAIN saves :
        saves'[p] # saves[p] => \A q \in DOMAIN saves \ {p} : saves'[q] = saves[q]

C18_NoCrossTalk == []OwnArticleRecorded /\ [][OneRequestPerStep]_vars

\* both requests succeeded, each with its own URL and title
C18_Witness ==
    /\ saves # <<>>
    /\ saves[1].status = "OK"
    /\ saves[2].status = "OK"
    /\ saves[1].article.title = <<"A">>
    /\ saves[2].article.title = <<"B">>
    /\ Len(articles) = 2

(***************************************************************************)
(* C19.  Within one fetch at most one transport is open at any time, and   *)
(* it is the one opened last: the transport of a hop that answered with a  *)
(* redirect is closed before the next connection is opened; when the fetch *)
(* ends with a Pdf or Unsupported document (or fails) every transport is   *)
(* closed; an Html document leaves its transport open, held by the         *)
(* HtmlBodyReader alone.                                                   *)
(***************************************************************************)
IsOpen(t) == t.owner # "dropped"

C19_OneTransportOneOwner ==
    /\ \A i \in 1..Len(transports) : IsOpen(transports[i]) => i = Len(transports)
    /\ fpc = "loop" => \A i \in 1..Len(transports) : ~IsOpen(transports[i])
    /\ (fpc = "done" /\ fres.kind # "Html")
          => \A i \in 1..Len(transports) : ~IsOpen(transports[i])
    /\ fres.kind = "Html" => transports[Len(transports)].owner = "HtmlBodyReader"
    /\ \A i \in 1..Len(transports) :
          transports[i].owner = "HtmlBodyReader" => fres.kind = "Html"

\* an Html document was returned after two redirects
C19_Witness ==
    /\ Len(transports) = 3
    /\ fres.kind = "Html"
    /\ ~IsOpen(transports[1])
    /\ ~IsOpen(transports[2])
    /\ transports[3].owner = "HtmlBodyReader"

(***************************************************************************)
(* C20.  next_line treats the CR as optional: the line it returns is the   *)
(* unconsumed bytes up to the next LF, without the CR when one precedes    *)
(* the LF and in full when none does; and the offset moves to the byte     *)
(* immediately after that LF.                                              *)
(***************************************************************************)
\* the unconsumed bytes before the next LF
UpToLf == Take(Drop(buffer, offset), memchr("LF", Drop(buffer, offset)))

C20_CrOptional ==
    [][Len(lines') = Len(lines) + 1 =>
          /\ lines'[Len(lines')] = StripCr(UpToLf)
          /\ offset' = offset + Len(UpToLf) + 1]_vars

(***************************************************************************)
(* C21.  Successive next_line calls return the stream's lines in stream    *)
(* order, each exactly once: a line of the stream is returned no more      *)
(* often than the stream holds it, and two lines that the stream holds     *)
(* once each are returned in the order the stream holds them.              *)
(***************************************************************************)
\* how often the line l occurs in the sequence of lines ls
Occurrences(ls, l) == Cardinality({i \in 1..Len(ls) : ls[i] = l})

\* the index of a line that ls holds exactly once
IndexOfLine(ls, l) == CHOOSE i \in 1..Len(ls) : ls[i] = l

C21_EachLineOnceInOrder ==
    LET sl == StreamLines(sent)
    IN  /\ \A k \in 1..Len(sl) : Occurrences(lines, sl[k]) <= Occurrences(sl, sl[k])
        /\ \A i, j \in 1..Len(lines) :
              (/\ i < j
               /\ Occurrences(sl, lines[i]) = 1
               /\ Occurrences(sl, lines[j]) = 1)
                 => IndexOfLine(sl, lines[i]) <= IndexOfLine(sl, lines[j])

(***************************************************************************)
(* C22.  The header scan: http_get takes the header lines in order and     *)
(* stops at the first one whose name (the text before the first ": ") is   *)
(* one of the two literal spellings of the expected header; every header   *)
(* line before it was skipped: it is neither blank nor has it such a name; *)
(* a Document or a redirect comes from such a line only; and when the      *)
(* blank line or the end of the stream comes first the fetch fails.        *)
(***************************************************************************)
\* the name of a header line: the text before its first ": "
NameOfHeader(line) ==
    IF \E i \in 1..Len(line) : line[i] = ": "
    THEN SubSeq(line, 1, memchr(": ", line))
    ELSE line

\* the two literal spellings of the expected header
Spelled(exp) ==
    IF exp = "ContentType" THEN {<<"Content-Type">>, <<"content-type">>}
    ELSE IF exp = "Location" THEN {<<"Location">>, <<"location">>}
    ELSE {}

\* the i-th line returned is a header line that ends the scan
EndsScan(i) == lines[i] = <<>> \/ NameOfHeader(lines[i]) \in Spelled(expected)

C22_HeaderScan ==
    /\ \A i \in 2..(Len(lines) - 1) : ~EndsScan(i)
    /\ (Len(lines) >= 2 /\ EndsScan(Len(lines))) => hpc = "done"
    /\ response.kind \in {"Html", "Pdf", "Unsupported", "Redirect"}
          => /\ Len(lines) >= 2
             /\ NameOfHeader(lines[Len(lines)]) \in Spelled(expected)
    /\ (Len(lines) >= 2 /\ lines[Len(lines)] = <<>>)
          => response = Err("no expected header")
    /\ (hpc = "done" /\ stream = <<>> /\ ~(Len(lines) >= 2 /\ EndsScan(Len(lines))))
          => response.kind \in {"Err", "Panic"}

\* a header spelled CONTENT-TYPE was skipped and the blank line ended the scan
C22_Witness ==
    /\ Len(lines) = 3
    /\ NameOfHeader(lines[2]) = <<"CONTENT-TYPE">>
    /\ lines[3] = <<>>
    /\ response = Err("no expected header")

(***************************************************************************)
(* C23.  extract_title terminates on every finite stream: an iteration of  *)
(* the loop that does not return either goes on without reading, at most   *)
(* twice in a row (Start to Name, Name to Attributes), or performs one     *)
(* read; and a read of 0 bytes, in whatever state, ends the extraction     *)
(* with Ok(None), a partially accumulated title being dropped.             *)
(***************************************************************************)
\* the arms that go round the loop again without reading
Unread == {"StartFound", "NameMatch"}

\* two arms in a row without a read are Start's and then Name's; an arm that
\* asks for a read is followed by exactly one read, and a read by an arm
IterationReadsOrAdvances ==
    /\ (step \in Unread /\ step' \in Unread)
          => (step = "StartFound" /\ step' = "NameMatch")
    /\ pc = "read" => (step' \in {"ReadMore", "ReadEof"} /\ pc' \in {"match", "done"})
    /\ step' = "ReadMore" => (pc' = "match" /\ Len(stream') < Len(stream))
    /\ step' = "ReadEof" => (result' = OkNone /\ pc' = "done")

C23_ExtractTerminates ==
    /\ <>(pc = "done")
    /\ [](step = "ReadEof" => (result = OkNone /\ pc = "done"))
    /\ [][IterationReadsOrAdvances]_vars

\* the stream ended inside an unterminated title: the text read so far is dropped
C23_Witness ==
    /\ step = "ReadEof"
    /\ state = "Value"
    /\ title # <<>>
    /\ result = OkNone
    /\ pc = "done"

(***************************************************************************)
(* C24.  A Name mismatch goes back to Start with every compared byte still *)
(* in the buffer, so a title tag whose "<" lies within the five bytes      *)
(* after a non-title "<" is still found: documents such as                 *)
(* "<<title>T</title>" and "<a><title>T</title>" yield T.                  *)
(***************************************************************************)
\* a "<" that opens no title tag lies within TagLen bytes before the title tag
TitleTagRightAfterTag(S) ==
    /\ HasTitleElement(S)
    /\ \E i \in 1..(FirstTitleTag(S) - 1) :
          S[i] = "<" /\ FirstTitleTag(S) - i <= TagLen

C24_TagAfterMismatchFound ==
    /\ (step = "NameMismatch" /\ pc = "read")
          => /\ Len(buffer) >= TagLen
             /\ \E k \in 0..Len(input) : IsPrefix(buffer, Drop(input, k))
    /\ (Done /\ TitleTagRightAfterTag(input))
          => result = OkSome(from_utf8_lossy(TitleBytes(input)))

(***************************************************************************)
(* C25.  Attributes and Value: once a title tag is recognized every byte   *)
(* up to and including the first ">" is skipped, and the title returned is *)
(* exactly the bytes strictly between that ">" and the next "<", in stream *)
(* order, none dropped and none twice, however the attributes and the text *)
(* are cut into reads; the bytes are decoded once, lossily, at the end.    *)
(***************************************************************************)
\* what is still to be examined: the buffer and then the rest of the stream
Unexamined == buffer \o stream

\* in Attributes nothing after the first ">" of the tag has been skipped
AttributesSkipsUpToGt ==
    state = "Attributes"
        => /\ HasTitleTag(input)
           /\ \E k \in FirstTitleTag(input)..Len(input) :
                 /\ Unexamined = Drop(input, k)
                 /\ \A j \in (FirstTitleTag(input) + 1)..k : input[j] # ">"

\* in Value the accumulator and what is unexamined are the bytes after the ">"
ValueAccumulatesInOrder ==
    (state = "Value" /\ result.kind # "Some")
        => /\ HasTitleTag(input) /\ TitleGt(input) > 0
           /\ title \o Unexamined = Drop(input, TitleGt(input))
           /\ \A j \in 1..Len(title) : title[j] # "<"

\* the title returned is the bytes between the ">" and the next "<", decoded once
TitleIsBytesBetween ==
    result.kind = "Some"
        => /\ HasTitleTag(input) /\ TitleGt(input) > 0 /\ TitleLt(input) > 0
           /\ title = TitleBytes(input)
           /\ result = OkSome(from_utf8_lossy(TitleBytes(input)))

C25_TitleBetweenGtAndLt ==
    /\ AttributesSkipsUpToGt
    /\ ValueAccumulatesInOrder
    /\ TitleIsBytesBetween

\* the text was cut between the two bytes of a character: the first was
\* accumulated by an earlier step, the second came with the last read
C25_Witness ==
    /\ Done
    /\ step = "ValueFound"
    /\ buffer # <<>>
    /\ buffer[1] = "A9"
    /\ result = OkSome(<<"R", "U+00E9", "M", "e">>)

(***************************************************************************)
(* C26.  Chunking independence: extract_title's result depends only on the *)
(* initial buffer content followed by the stream's bytes; runs over the    *)
(* same bytes return the same result whatever the buffer's capacity,       *)
(* wherever the bytes are cut into reads and however many of them were     *)
(* buffered beforehand.  The run every other run is compared with is the   *)
(* one that starts with all the bytes in the buffer and the stream at EOF. *)
(***************************************************************************)
\* the result of the run that has the whole of S in its buffer from the start:
\* the arms are taken until one reads, and that read finds the stream at EOF
WholeRun(S) ==
    IF ExtractScan("Start", <<>>, S).result = Pending
    THEN OkNone
    ELSE ExtractScan("Start", <<>>, S).result

C26_ChunkingIndependent ==
    (Done /\ Len(input) <= BigCap) => result = WholeRun(input)

(***************************************************************************)
(* C27.  The Line Reader's index: after every next_line call that returned *)
(* a line, offset is the index of the byte right after that line's LF and  *)
(* offset <= buffer.len(), empty lines ended by a bare LF included, so     *)
(* that buffer[offset..] is in bounds and no byte after a terminator is    *)
(* skipped.  (offset is 0 again once the None arm has refilled.)           *)
(***************************************************************************)
C27_OffsetAfterLf ==
    (lines # <<>> /\ offset > 0)
        => /\ offset <= Len(buffer)
           /\ buffer[offset] = "LF"

(***************************************************************************)
(* C28.  Article uniqueness: after any sequence of successful saves and    *)
(* deletes the articles table holds at most one row per guid, the guid     *)
(* being a function of the article's final URL alone; a save of a URL that *)
(* is already stored replaces its row (title and timestamp) in one         *)
(* transaction instead of adding a second one, every other row staying as  *)
(* it was; and a delete of a guid removes its row and no other.            *)
(***************************************************************************)
\* the rows of the table that have the guid g, and those that have not
RowsOf(tbl, g) == SelectSeq(tbl, LAMBDA r : r.guid = g)

RowsBut(tbl, g) == SelectSeq(tbl, LAMBDA r : r.guid # g)

OneRowPerGuid ==
    /\ \A i, j \in DOMAIN articles : articles[i].guid = articles[j].guid => i = j
    /\ \A i \in DOMAIN articles : articles[i].guid = guid(articles[i].link)
    /\ \A i, j \in DOMAIN articles :
          (articles[i].link = articles[j].link) <=> (articles[i].guid = articles[j].guid)

\* what a committed save or delete does to the table
SaveReplacesDeleteRemoves ==
    op'.n # op.n =>
        /\ op'.kind = "save" =>
              /\ RowsOf(articles', op'.guid) =
                     << [title |-> op'.article.title, link |-> op'.article.url,
                         guid |-> op'.guid, timestamp |-> now] >>
              /\ RowsBut(articles', op'.guid) = RowsBut(articles, op'.guid)
              /\ Len(articles') =
                     Len(articles) + (IF RowsOf(articles, op'.guid) = <<>> THEN 1 ELSE 0)
        /\ op'.kind = "delete" =>
              /\ RowsOf(articles', op'.guid) = <<>>
              /\ RowsBut(articles', op'.guid) = RowsBut(articles, op'.guid)
        /\ op'.kind = "rollback" => articles' = articles
        /\ op'.kind \in {"save", "delete"} => op'.before = RowsOf(articles, op'.guid)

C28_OneRowPerGuid == []OneRowPerGuid /\ [][SaveReplacesDeleteRemoves]_vars

\* a URL stored on an earlier day under one title was saved again under
\* another: its one row carries the new title and the new timestamp, next to
\* the other URL's row
C28_Witness ==
    /\ op.kind = "save"
    /\ Len(op.before) = 1
    /\ op.before[1].title = <<"A">>
    /\ op.before[1].timestamp < now
    /\ Len(articles) = 2
    /\ articles[1].timestamp < articles[2].timestamp
    /\ articles[2].guid = op.guid
    /\ articles[2].title = <<"B">>
    /\ articles[2].timestamp = now
    /\ stats = (0 :> 2)

=============================================================================
